---- MODULE Spec2Model ----
(***************************************************************************)
(* State-machine model of the VPP-Demo snapshots:                          *)
(*   "Sources"      Sources/Application.cpp  (triangle + ImGui overlay,    *)
(*                  swapchain recreation, 2-slot frame-in-flight ring)     *)
(*   "Source"       Source/Application.cpp   (window + device, empty loop) *)
(*   "IApplication" Sources/IApplication.cpp + Sources/Main.cpp            *)
(* One behaviour runs one snapshot, chosen in Init.  pc names the code     *)
(* that executes next.  The GPU is a second process that completes         *)
(* submitted batches and signals their fences.                             *)
(***************************************************************************)
EXTENDS Integers, Sequences, FiniteSets, TLC

VARIABLES
    snapshot,         \* which program runs
    pc,               \* next code position of the CPU thread
    stages,           \* history: stages of Application::Run that were entered, in order
    returned,         \* history: number of entered stages that returned normally
    m_Running,
    m_LockFps,
    frameMaxElapsed,  \* <<num, den>>: per-frame budget num/den microseconds
    m_WindowResized,
    m_CurSyncFrame,
    m_SyncObjCount,
    m_FrameIndex,
    m_SwapImageCount,
    fenceSignaled,    \* m_InFlightFences[i] is signalled
    fencePending,     \* a submitted batch will signal m_InFlightFences[i]
    updated,          \* MainLoop local: result of FrameUpdate in this iteration
    acquireResult,    \* FrameUpdate local: result of vkAcquireNextImageKHR
    submitResult,     \* result of vkQueueSubmit in this iteration
    presentResult,    \* result of vkQueuePresentKHR in this iteration
    steps,            \* history: frame steps done in this iteration
    resizedAtStart,   \* history: m_WindowResized when this iteration started
    recreateCount,    \* history: RecreateSwapchain calls in this iteration
    setFps,           \* history: {} or {fps of the last SetLockFps call}
    slept,            \* history: the iteration that has just ended slept
    exitRequested,    \* history: Exit() was called before the frame loop started
    exitInLoop,       \* history: Exit() was called inside the frame loop
    iters,            \* history: frame iterations started (saturates at MaxIters)
    initCalls,        \* history: calls of IApplication::Initialize
    finalCalls,       \* history: calls of IApplication::Finalize
    threw,            \* history: hooks of IApplication that threw a std::exception
    exitCode,         \* value returned by main
    objs,             \* per kind of object: state of the member handle, live objects
    oplog,            \* history: object operations of the current phase, in order:
                      \* initialisation, the current iteration, or Cleanup
    failedStep,       \* history: kind of the object whose creation threw, or "none"
    drawable,         \* history: drawable size read in this iteration, or <<>>
    overlay,          \* ImGui::Render() built draw data in this iteration
    recorded,         \* history: commands recorded by RecordCommand in this iteration
    indexFresh,       \* history: m_FrameIndex was written by an acquire on the live swapchain
    inFlightCmd,      \* per fence slot: index of the command buffer of its pending batch, or -1
    m_SimpleRenderPass, \* the render pass the handle names (0: VK_NULL_HANDLE)
    init_info,        \* what ImGui_ImplVulkan_Init was given: RenderPass, ImageCount
    fn,               \* FnSpec: the function called on its own, "none" in Spec
    arg,              \* FnSpec: its input
    ret               \* FnSpec: <<>> before the call, <<result>> after it

ctlVars  == <<snapshot, pc, stages, returned, m_Running>>
fpsVars  == <<m_LockFps, frameMaxElapsed, setFps, slept>>
syncVars == <<m_WindowResized, m_CurSyncFrame, m_SyncObjCount, m_FrameIndex,
              m_SwapImageCount, fenceSignaled, fencePending>>
iterVars == <<updated, acquireResult, submitResult, presentResult, steps,
              resizedAtStart, recreateCount>>
exitVars == <<exitRequested, exitInLoop, iters>>
mainVars == <<initCalls, finalCalls, threw, exitCode>>
objVars  == <<objs, oplog, failedStep>>
drawVars == <<drawable, overlay, recorded, indexFresh, inFlightCmd>>
gfxVars  == <<m_SimpleRenderPass, init_info>>
fnVars   == <<fn, arg, ret>>
vars == <<ctlVars, fpsVars, syncVars, iterVars, exitVars, mainVars, objVars,
          drawVars, gfxVars, fnVars>>

----------------------------------------------------------------------------
(* Bounds *)
MaxIters == 2
MaxImageCount == 3

(* Program constants *)
\* The initial m_FrameIndex.  The code's value is 2^32 - 1, beyond TLC's integers;
\* the largest TLC integer stands for it: like the code's, it exceeds every image
\* count, and the model never does arithmetic on it.
UINT32_MAX == 2147483647
kOneSec == 1000000
DefaultLockFps == 60
SyncFrameNum == 2
VK_NULL_HANDLE == 0

(* Inputs *)
Snapshots == {"Sources", "Source", "IApplication"}
FpsInputs == {0, 30, 60}
ElapsedSamples == {0, 40000}          \* measured frame time, microseconds
DrawableSizes == {<<0, 0>>, <<1280, 0>>, <<1280, 900>>}
VkResults == {"VK_SUCCESS", "VK_SUBOPTIMAL_KHR", "VK_ERROR_OUT_OF_DATE_KHR",
              "VK_ERROR_DEVICE_LOST"}
ImageCounts == 2..MaxImageCount
Throws == {"none", "std", "other"}    \* nothing, a std::exception, anything else

Min(a, b) == IF a < b THEN a ELSE b
IsPrefix(s, t) == Len(s) <= Len(t) /\ s = SubSeq(t, 1, Len(s))
InSeq(x, s) == \E i \in 1..Len(s) : s[i] = x

----------------------------------------------------------------------------
(* Pure helpers, one per expression of the code *)

\* void Exit() { m_Running = false; }
Exit == FALSE

\* while (m_Running)
LoopConditionAlways(running) == TRUE
LoopCondition(running) == running

\* frameMaxElapsed = zero; if (m_LockFps) frameMaxElapsed = kOneSec / m_LockFps;
Budget(fps) == IF fps # 0 THEN <<kOneSec, fps>> ELSE <<0, 1>>

\* if (frameElapsed < frameMaxElapsed) sleep_for(...)
Sleeps(elapsed, budget) == elapsed * budget[2] < budget[1]

\* result == VK_ERROR_OUT_OF_DATE_KHR || result == VK_SUBOPTIMAL_KHR
StaleResultOutOfDateOnly(result) == result = "VK_ERROR_OUT_OF_DATE_KHR"
StaleResult(result) == result \in {"VK_ERROR_OUT_OF_DATE_KHR", "VK_SUBOPTIMAL_KHR"}

\* return result == VK_SUCCESS;
FrameUpdateReturnNoError(result) == result \in {"VK_SUCCESS", "VK_SUBOPTIMAL_KHR"}
FrameUpdateReturn(result) == result = "VK_SUCCESS"

\* m_CurSyncFrame = (m_CurSyncFrame + 1) % m_SyncObjCount;
NextSyncFrameNoWrap(cur, count) == cur + 1
NextSyncFrame(cur, count) == (cur + 1) % count

\* Application::Run, Sources snapshot: the calls in order
RunStagesSwapped == <<"InitProperty", "InitWindow", "InitVulkan", "MainLoop",
                      "InitImGui", "Cleanup">>
RunStages == <<"InitProperty", "InitWindow", "InitVulkan", "InitImGui",
               "MainLoop", "Cleanup">>

\* Application::Run, Source snapshot
Source_RunStages == <<"InitProperty", "InitWindow", "InitVulkan", "MainLoop",
                      "Cleanup">>

StagesOf(snap) == IF snap = "Sources" THEN RunStages ELSE Source_RunStages

\* the statement of Run after the call of stage s
AfterStage(snap, s) ==
    LET seq == StagesOf(snap)
        i == CHOOSE k \in 1..Len(seq) : seq[k] = s
    IN  IF i = Len(seq) THEN "done" ELSE seq[i + 1]

----------------------------------------------------------------------------
(* Objects the program creates and destroys.  An array of handles (image    *)
(* views, framebuffers, command buffers, semaphores, fences) is one kind.   *)
(* vertShader, fragShader are the shader modules CreateSimplePipeline holds *)
(* in ShaderModuleWrapper locals; vertShaderModule, fragShaderModule are    *)
(* the raw locals of CreateVertexPipeline.                                  *)

Kinds == {"window", "instance", "surface", "gpu", "device", "commandPool",
          "vertexBuffer", "vertexBufferMemory", "swapchain", "imageViews",
          "renderPass", "simplePipelineLayout", "simplePipeline",
          "vertexPipelineLayout", "vertexPipeline", "framebuffers",
          "commandBuffers", "semaphores", "fences", "imguiContext",
          "descriptorPool", "imguiBackend", "vertShader", "fragShader",
          "vertShaderModule", "fragShaderModule"}

\* kinds created one element at a time in a loop that throws at the first failure
ArrayKinds == {"imageViews", "framebuffers", "semaphores", "fences"}

\* locals whose destructor destroys the object when the scope is left, in the
\* order the destructors run
ScopedKinds == <<"fragShader", "vertShader">>

\* one object operation: create / pick (select an existing handle) / destroy /
\* destroyOld (destroy the swapchain saved in the local oldSwapchain) /
\* throw (the creation of kind failed, arg "partial": after some elements)
Op(o, k) == [op |-> o, kind |-> k, arg |-> "none"]
OpWith(o, k, a) == [op |-> o, kind |-> k, arg |-> a]

\* SDL_Init, SDL_CreateWindow
InitWindowOps == <<Op("create", "window")>>

\* CreateSimplePipeline: two wrapped shader modules, layout, pipeline; the
\* wrappers are destroyed when the function returns
CreateSimplePipelineOps ==
    <<Op("create", "vertShader"), Op("create", "fragShader"),
      Op("create", "simplePipelineLayout"), Op("create", "simplePipeline"),
      Op("destroy", "fragShader"), Op("destroy", "vertShader")>>

\* CreateVertexPipeline: two raw shader modules, layout, pipeline, then
\* vkDestroyShaderModule of both
CreateVertexPipelineOps ==
    <<Op("create", "vertShaderModule"), Op("create", "fragShaderModule"),
      Op("create", "vertexPipelineLayout"), Op("create", "vertexPipeline"),
      Op("destroy", "fragShaderModule"), Op("destroy", "vertShaderModule")>>

\* CreateImageViews .. CreateCommandBuffers, the tail of CreateSwapchain and of
\* RecreateSwapchain
CreateDependentsOps ==
    <<Op("create", "imageViews"), Op("create", "renderPass")>>
    \o CreateSimplePipelineOps
    \o CreateVertexPipelineOps
    \o <<Op("create", "framebuffers"), Op("create", "commandBuffers")>>

\* CreateSwapchain: CreateSwapchainImpl(VK_NULL_HANDLE), then the dependents
CreateSwapchainOps ==
    <<OpWith("create", "swapchain", "VK_NULL_HANDLE")>> \o CreateDependentsOps

\* InitVulkan: the creations in order
InitVulkanOpsPoolLate ==
    <<Op("create", "instance"), Op("create", "surface"), Op("pick", "gpu"),
      Op("create", "device"), Op("create", "vertexBuffer"),
      Op("create", "vertexBufferMemory")>>
    \o CreateSwapchainOps
    \o <<Op("create", "commandPool"), Op("create", "semaphores"),
         Op("create", "fences")>>
InitVulkanOps ==
    <<Op("create", "instance"), Op("create", "surface"), Op("pick", "gpu"),
      Op("create", "device"), Op("create", "commandPool"),
      Op("create", "vertexBuffer"), Op("create", "vertexBufferMemory")>>
    \o CreateSwapchainOps
    \o <<Op("create", "semaphores"), Op("create", "fences")>>

\* InitImGui: ImGui::CreateContext, vkCreateDescriptorPool, the two backends
InitImGuiOps ==
    <<Op("create", "imguiContext"), Op("create", "descriptorPool"),
      Op("create", "imguiBackend")>>

\* CleanSwapchainResources
CleanSwapchainResourcesOps ==
    <<Op("destroy", "framebuffers"), Op("destroy", "commandBuffers"),
      Op("destroy", "simplePipeline"), Op("destroy", "simplePipelineLayout"),
      Op("destroy", "vertexPipeline"), Op("destroy", "vertexPipelineLayout"),
      Op("destroy", "renderPass"), Op("destroy", "imageViews")>>

\* RecreateSwapchain after its vkDeviceWaitIdle
RecreateSwapchainOpsLeakOld ==
    CleanSwapchainResourcesOps
    \o <<OpWith("create", "swapchain", "oldSwapchain")>>
    \o CreateDependentsOps
RecreateSwapchainOps ==
    CleanSwapchainResourcesOps
    \o <<OpWith("create", "swapchain", "oldSwapchain"),
         Op("destroyOld", "swapchain")>>
    \o CreateDependentsOps

\* Cleanup, Sources snapshot
CleanupOpsDeviceFirst ==
    <<Op("destroy", "imguiBackend"), Op("destroy", "imguiContext"),
      Op("destroy", "descriptorPool"), Op("destroy", "vertexBuffer"),
      Op("destroy", "vertexBufferMemory")>>
    \o CleanSwapchainResourcesOps
    \o <<Op("destroy", "swapchain"), Op("destroy", "semaphores"),
         Op("destroy", "fences"), Op("destroy", "device"),
         Op("destroy", "commandPool"), Op("destroy", "surface"),
         Op("destroy", "instance"), Op("destroy", "window")>>
CleanupOps ==
    <<Op("destroy", "imguiBackend"), Op("destroy", "imguiContext"),
      Op("destroy", "descriptorPool"), Op("destroy", "vertexBuffer"),
      Op("destroy", "vertexBufferMemory")>>
    \o CleanSwapchainResourcesOps
    \o <<Op("destroy", "swapchain"), Op("destroy", "semaphores"),
         Op("destroy", "fences"), Op("destroy", "commandPool"),
         Op("destroy", "device"), Op("destroy", "surface"),
         Op("destroy", "instance"), Op("destroy", "window")>>

\* InitVulkan, Source snapshot
Source_InitVulkanOps ==
    <<Op("create", "instance"), Op("create", "surface"), Op("pick", "gpu"),
      Op("create", "device"), OpWith("create", "swapchain", "VK_NULL_HANDLE"),
      Op("create", "imageViews")>>

\* Cleanup, Source snapshot
Source_CleanupOps ==
    <<Op("destroy", "imageViews"), Op("destroy", "swapchain"),
      Op("destroy", "device"), Op("destroy", "surface"),
      Op("destroy", "instance"), Op("destroy", "window")>>

\* the effect of one operation on the objects.  A create stores a new live
\* object in the member handle; a destroy of a live handle destroys its object;
\* a destroy of a null handle does nothing; destroyOld destroys the object the
\* member handle held before the last create; a creation loop that throws may
\* leave the elements it created.
Step(o, op) ==
    LET cur == o[op.kind] IN
    CASE op.op = "create" ->
           [o EXCEPT ![op.kind] = [handle |-> "live", live |-> cur.live + 1]]
      [] op.op = "pick" ->
           [o EXCEPT ![op.kind] = [handle |-> "live", live |-> cur.live]]
      [] op.op = "destroy" ->
           IF cur.handle \in {"live", "partial"}
             THEN [o EXCEPT ![op.kind] = [handle |-> "dead", live |-> cur.live - 1]]
             ELSE o
      [] op.op = "destroyOld" ->
           [o EXCEPT ![op.kind] = [handle |-> cur.handle, live |-> cur.live - 1]]
      [] op.op = "throw" ->
           IF op.arg = "partial"
             THEN [o EXCEPT ![op.kind] = [handle |-> "partial", live |-> cur.live + 1]]
             ELSE o

RECURSIVE ApplyAll(_, _)
ApplyAll(o, ops) ==
    IF ops = <<>> THEN o ELSE ApplyAll(Step(o, Head(ops)), Tail(ops))

\* the steps whose failure the code turns into a throw: every create and pick
FailPoints(ops) == {i \in 1..Len(ops) : ops[i].op \in {"create", "pick"}}

\* throw std::runtime_error at step failAt (0: no failure): the steps before it
\* were executed, the ones after it are not
ExecutedAll(ops, failAt) == ops
Executed(ops, failAt) ==
    IF failAt = 0 THEN ops ELSE SubSeq(ops, 1, failAt - 1)

\* the object of kind k made by the operations done is held by its local
Open(k, done) ==
    \E i \in 1..Len(done) :
      /\ done[i].kind = k /\ done[i].op = "create"
      /\ \A j \in (i + 1)..Len(done) : done[j].kind # k

\* stack unwinding after a throw: the destructors of the wrappers in scope
Unwind(done) ==
    LET InScope(k) == Open(k, done)
    IN  [i \in 1..Len(SelectSeq(ScopedKinds, InScope)) |->
           Op("destroy", SelectSeq(ScopedKinds, InScope)[i])]

\* the failing step itself and what follows it
Thrown(ops, failAt, some) ==
    IF failAt = 0
      THEN <<>>
      ELSE <<OpWith("throw", ops[failAt].kind,
                    IF some /\ ops[failAt].kind \in ArrayKinds
                      THEN "partial" ELSE "none")>>
           \o Unwind(Executed(ops, failAt))

Created(k, ops) == \E i \in 1..Len(ops) : ops[i].op = "create" /\ ops[i].kind = k

\* run a list of object operations of the current phase up to a failure
RunOps(ops, failAt, some) ==
    LET all == Executed(ops, failAt) \o Thrown(ops, failAt, some)
    IN  /\ objs' = ApplyAll(objs, all)
        /\ oplog' = oplog \o all
        /\ failedStep' = IF failAt = 0 THEN failedStep ELSE ops[failAt].kind

\* A handle is modelled by the object it names, and the render passes are named
\* by the call that created them: 1 is made by InitVulkan (CreateSwapchain), 2 by
\* a RecreateSwapchain; 0 is VK_NULL_HANDLE.  Render passes made by different
\* recreations are never compared with each other and share the name 2.
RenderPassMadeBy(stage) == IF stage = "InitVulkan" THEN 1 ELSE 2

\* the value a vkCreate* call stores in a member handle: when the operations done
\* created an object of kind k it names the new object h, otherwise the handle
\* keeps its value (a destroy does not reset it)
NewHandleKept(k, done, h, old) == old
NewHandle(k, done, h, old) == IF Created(k, done) THEN h ELSE old

----------------------------------------------------------------------------
\* the data members after construction
Constructed ==
    /\ pc = "start"
    /\ stages = <<>>
    /\ returned = 0
    /\ m_Running = FALSE
    /\ m_LockFps = IF snapshot = "IApplication" THEN DefaultLockFps ELSE 0
    /\ frameMaxElapsed = <<0, 1>>
    /\ m_WindowResized = FALSE
    /\ m_CurSyncFrame = 0
    /\ m_SyncObjCount = 0
    /\ m_FrameIndex = UINT32_MAX
    /\ m_SwapImageCount = 0
    /\ fenceSignaled = [i \in {} |-> FALSE]
    /\ fencePending = [i \in {} |-> FALSE]
    /\ updated = FALSE
    /\ acquireResult = "none"
    /\ submitResult = "none"
    /\ presentResult = "none"
    /\ steps = <<>>
    /\ resizedAtStart = FALSE
    /\ recreateCount = 0
    /\ setFps = {}
    /\ slept = FALSE
    /\ exitRequested = FALSE
    /\ exitInLoop = FALSE
    /\ iters = 0
    /\ initCalls = 0
    /\ finalCalls = 0
    /\ threw = {}
    /\ exitCode = "none"
    /\ objs = [k \in Kinds |-> [handle |-> "null", live |-> 0]]
    /\ oplog = <<>>
    /\ failedStep = "none"
    /\ drawable = <<>>
    /\ overlay = FALSE
    /\ recorded = <<>>
    /\ indexFresh = FALSE
    /\ inFlightCmd = [i \in 0..(SyncFrameNum - 1) |-> -1]
    /\ m_SimpleRenderPass = VK_NULL_HANDLE
    /\ init_info = [RenderPass |-> VK_NULL_HANDLE, ImageCount |-> 0]

Init ==
    /\ snapshot \in Snapshots
    /\ Constructed
    /\ fn = "none"
    /\ arg = <<>>
    /\ ret = <<>>

IsApp == snapshot \in {"Sources", "Source"}

\* a stage of Run is entered / returns normally / throws
Enter(s) == stages' = Append(stages, s)
Return(s) == /\ returned' = returned + 1
             /\ pc' = AfterStage(snapshot, s)
Throw == /\ pc' = "thrown"
         /\ UNCHANGED returned

----------------------------------------------------------------------------
(* The caller of Application, before Run *)

SetLockFps(fps) ==
    /\ IsApp /\ pc = "start"
    /\ m_LockFps' = fps
    /\ setFps' = {fps}
    /\ UNCHANGED <<fnVars, ctlVars, frameMaxElapsed, slept, syncVars, iterVars, exitVars,
                   mainVars, objVars, drawVars, gfxVars>>

ExitBeforeRun ==
    /\ IsApp /\ pc = "start"
    /\ m_Running' = Exit
    /\ exitRequested' = TRUE
    /\ UNCHANGED <<fnVars, snapshot, pc, stages, returned, fpsVars, syncVars, iterVars,
                   exitInLoop, iters, mainVars, objVars, drawVars, gfxVars>>

Run ==
    /\ IsApp /\ pc = "start"
    /\ pc' = StagesOf(snapshot)[1]
    /\ UNCHANGED <<fnVars, snapshot, stages, returned, m_Running, fpsVars, syncVars,
                   iterVars, exitVars, mainVars, objVars, drawVars, gfxVars>>

----------------------------------------------------------------------------
(* Sources snapshot: the stages of Application::Run *)

InitProperty ==
    /\ snapshot = "Sources" /\ pc = "InitProperty"
    /\ Enter("InitProperty")
    /\ m_LockFps' = DefaultLockFps
    /\ Return("InitProperty")
    /\ UNCHANGED <<fnVars, snapshot, m_Running, frameMaxElapsed, setFps, slept, syncVars,
                   iterVars, exitVars, mainVars, objVars, drawVars, gfxVars>>

\* SDL_Init or SDL_CreateWindow may fail: throw std::runtime_error
InitWindow ==
    /\ snapshot = "Sources" /\ pc = "InitWindow"
    /\ Enter("InitWindow")
    /\ \E failAt \in {0} \cup FailPoints(InitWindowOps) :
         /\ RunOps(InitWindowOps, failAt, FALSE)
         /\ IF failAt = 0 THEN Return("InitWindow") ELSE Throw
    /\ UNCHANGED <<fnVars, snapshot, m_Running, fpsVars, syncVars, iterVars, exitVars,
                   mainVars, drawVars, gfxVars>>

\* m_SyncObjCount = frameNum; every fence created with VK_FENCE_CREATE_SIGNALED_BIT
CreateSyncObjects(frameNum) ==
    /\ m_SyncObjCount' = frameNum
    /\ fenceSignaled' = [i \in 0..(frameNum - 1) |-> TRUE]
    /\ fencePending' = [i \in 0..(frameNum - 1) |-> FALSE]

\* CreateInstance .. CreateVertexBuffer, CreateSwapchain, CreateSyncObjects(2);
\* the first creation that fails throws; vkGetSwapchainImagesKHR gives the image
\* count; CreateSyncObjects writes m_SyncObjCount before it creates anything
InitVulkan ==
    /\ snapshot = "Sources" /\ pc = "InitVulkan"
    /\ Enter("InitVulkan")
    /\ \E failAt \in {0} \cup FailPoints(InitVulkanOps), some \in BOOLEAN,
          n \in ImageCounts :
         /\ RunOps(InitVulkanOps, failAt, some)
         /\ m_SimpleRenderPass' =
              NewHandle("renderPass", Executed(InitVulkanOps, failAt),
                        RenderPassMadeBy("InitVulkan"), m_SimpleRenderPass)
         /\ m_SwapImageCount' =
              IF Created("swapchain", Executed(InitVulkanOps, failAt))
                THEN n ELSE m_SwapImageCount
         /\ IF failAt = 0 \/ InitVulkanOps[failAt].kind \in {"semaphores", "fences"}
              THEN CreateSyncObjects(SyncFrameNum)
              ELSE UNCHANGED <<m_SyncObjCount, fenceSignaled, fencePending>>
         /\ IF failAt = 0 THEN Return("InitVulkan") ELSE Throw
    /\ UNCHANGED <<fnVars, snapshot, m_Running, fpsVars, m_WindowResized, m_CurSyncFrame,
                   m_FrameIndex, iterVars, exitVars, mainVars, drawVars,
                   init_info>>

\* init_info.RenderPass = m_SimpleRenderPass; init_info.ImageCount =
\* m_SwapImageCount; ImGui_ImplVulkan_Init(&init_info) keeps a copy
ImGuiInitInfoEmpty(renderPass, imageCount) ==
    [RenderPass |-> VK_NULL_HANDLE, ImageCount |-> 0]
ImGuiInitInfo(renderPass, imageCount) ==
    [RenderPass |-> renderPass, ImageCount |-> imageCount]

InitImGui ==
    /\ snapshot = "Sources" /\ pc = "InitImGui"
    /\ Enter("InitImGui")
    /\ RunOps(InitImGuiOps, 0, FALSE)
    /\ init_info' = ImGuiInitInfo(m_SimpleRenderPass, m_SwapImageCount)
    /\ Return("InitImGui")
    /\ UNCHANGED <<fnVars, snapshot, m_Running, fpsVars, syncVars, iterVars, exitVars,
                   mainVars, drawVars, m_SimpleRenderPass>>

\* MainLoop up to the first test of the loop condition
MainLoop ==
    /\ snapshot = "Sources" /\ pc = "MainLoop"
    /\ Enter("MainLoop")
    /\ frameMaxElapsed' = Budget(m_LockFps)
    /\ m_Running' = TRUE
    /\ pc' = "LoopCheck"
    /\ UNCHANGED <<fnVars, snapshot, returned, m_LockFps, setFps, slept, syncVars,
                   iterVars, exitVars, mainVars, objVars, drawVars, gfxVars>>

\* while (m_Running) { frameStart = now(); ...
LoopCheck ==
    /\ snapshot = "Sources" /\ pc = "LoopCheck"
    /\ IF LoopCondition(m_Running)
         THEN /\ pc' = "PollEvent"
              /\ iters' = Min(iters + 1, MaxIters)
              /\ updated' = FALSE
              /\ acquireResult' = "none"
              /\ submitResult' = "none"
              /\ presentResult' = "none"
              /\ steps' = <<>>
              /\ resizedAtStart' = m_WindowResized
              /\ recreateCount' = 0
              /\ oplog' = <<>>
              /\ drawable' = <<>>
              /\ overlay' = FALSE
              /\ recorded' = <<>>
         ELSE /\ pc' = "WaitIdle"
              /\ UNCHANGED <<iters, iterVars, oplog, drawable, overlay, recorded>>
    /\ slept' = FALSE
    /\ UNCHANGED <<fnVars, snapshot, stages, returned, m_Running, m_LockFps,
                   frameMaxElapsed, setFps, syncVars, exitRequested, exitInLoop,
                   mainVars, objs, failedStep, indexFresh, inFlightCmd, gfxVars>>

\* while (SDL_PollEvent(&e)) { if (SDL_QUIT == e.type) Exit(); ... }
PollEvent ==
    /\ snapshot = "Sources" /\ pc = "PollEvent"
    /\ \E quit \in BOOLEAN :
         /\ m_Running' = IF quit THEN Exit ELSE m_Running
         /\ exitInLoop' = (exitInLoop \/ quit)
    /\ pc' = "SizeCheck"
    /\ UNCHANGED <<fnVars, snapshot, stages, returned, fpsVars, syncVars, iterVars,
                   exitRequested, iters, mainVars, objVars, drawVars, gfxVars>>

\* if (actualWidth <= 0 || actualHeight <= 0) break;
MinimisedBoth(size) == size[1] <= 0 /\ size[2] <= 0
Minimised(size) == size[1] <= 0 \/ size[2] <= 0

\* SDL_Vulkan_GetDrawableSize; break when minimised; if (m_WindowResized) ...;
\* without a recreation the ImGui frame is built (NewFrame .. ImGui::Render)
SizeCheck ==
    /\ snapshot = "Sources" /\ pc = "SizeCheck"
    /\ \E size \in DrawableSizes :
         /\ drawable' = size
         /\ IF Minimised(size)
              THEN pc' = "FrameEnd" /\ UNCHANGED overlay
              ELSE IF m_WindowResized
              THEN pc' = "RecreateSwapchain" /\ UNCHANGED overlay
              ELSE pc' = "FrameUpdate" /\ overlay' = TRUE
    /\ UNCHANGED <<fnVars, snapshot, stages, returned, m_Running, fpsVars, syncVars,
                   iterVars, exitVars, mainVars, objVars, recorded, indexFresh,
                   inFlightCmd, gfxVars>>

\* vkDeviceWaitIdle returns when no submitted batch is pending
DeviceIdleAlways == TRUE
DeviceIdle == \A i \in DOMAIN fencePending : ~fencePending[i]

\* RecreateSwapchain(); m_WindowResized = false; then the ImGui frame is built.
\* The first creation that fails throws.
RecreateSwapchain ==
    /\ snapshot = "Sources" /\ pc = "RecreateSwapchain"
    /\ DeviceIdle
    /\ recreateCount' = recreateCount + 1
    /\ \E failAt \in {0} \cup FailPoints(RecreateSwapchainOps), some \in BOOLEAN,
          n \in ImageCounts :
         /\ RunOps(RecreateSwapchainOps, failAt, some)
         /\ m_SimpleRenderPass' =
              NewHandle("renderPass", Executed(RecreateSwapchainOps, failAt),
                        RenderPassMadeBy("RecreateSwapchain"), m_SimpleRenderPass)
         /\ m_SwapImageCount' =
              IF Created("swapchain", Executed(RecreateSwapchainOps, failAt))
                THEN n ELSE m_SwapImageCount
         /\ indexFresh' =
              IF Created("swapchain", Executed(RecreateSwapchainOps, failAt))
                THEN FALSE ELSE indexFresh
         /\ IF failAt = 0
              THEN /\ m_WindowResized' = FALSE
                   /\ overlay' = TRUE
                   /\ pc' = "FrameUpdate"
                   /\ UNCHANGED returned
              ELSE /\ Throw
                   /\ UNCHANGED <<m_WindowResized, overlay>>
    /\ UNCHANGED <<fnVars, snapshot, stages, m_Running, fpsVars, m_CurSyncFrame,
                   m_SyncObjCount, m_FrameIndex, fenceSignaled, fencePending,
                   updated, acquireResult, submitResult, presentResult, steps,
                   resizedAtStart, exitVars, mainVars, drawable, recorded,
                   inFlightCmd, init_info>>

\* vkAcquireNextImageKHR(..., &m_FrameIndex) writes the index when it returns
\* VK_SUCCESS or VK_SUBOPTIMAL_KHR and leaves it alone on an error
AcquiredIndexKept(result, index, old) == old
AcquiredIndex(result, index, old) ==
    IF result \in {"VK_SUCCESS", "VK_SUBOPTIMAL_KHR"} THEN index ELSE old

\* bool updated = FrameUpdate(); if (!updated) break;
\* vkWaitForFences(UINT64_MAX) returns only when the fence is signalled
FrameUpdate ==
    /\ snapshot = "Sources" /\ pc = "FrameUpdate"
    /\ fenceSignaled[m_CurSyncFrame]
    /\ fenceSignaled' = [fenceSignaled EXCEPT ![m_CurSyncFrame] = FALSE]
    /\ \E result \in VkResults, index \in 0..(m_SwapImageCount - 1) :
         /\ acquireResult' = result
         /\ m_FrameIndex' = AcquiredIndex(result, index, m_FrameIndex)
         /\ indexFresh' = (indexFresh \/ result \in {"VK_SUCCESS", "VK_SUBOPTIMAL_KHR"})
         /\ m_WindowResized' = IF StaleResult(result) THEN TRUE ELSE m_WindowResized
         /\ updated' = FrameUpdateReturn(result)
         /\ pc' = IF FrameUpdateReturn(result) THEN "RecordCommand" ELSE "FrameEnd"
    /\ steps' = Append(steps, "acquire")
    /\ UNCHANGED <<fnVars, snapshot, stages, returned, m_Running, fpsVars, m_CurSyncFrame,
                   m_SyncObjCount, m_SwapImageCount, fencePending, submitResult,
                   presentResult, resizedAtStart, recreateCount, exitVars,
                   mainVars, objVars, drawable, overlay, recorded, inFlightCmd,
                   gfxVars>>

\* one recorded command: its name, the object it is given, two numbers
Cmd(c, obj, a, b) == [cmd |-> c, obj |-> obj, a |-> a, b |-> b]

\* the Vulkan calls of RecordCommand on m_CommandBuffers[imageIndex], in order
RecordCommandsOverlayLast(imageIndex) ==
    <<Cmd("vkResetCommandBuffer", "m_CommandBuffers", imageIndex, 0),
      Cmd("vkBeginCommandBuffer", "m_CommandBuffers", imageIndex, 0),
      Cmd("vkCmdBindVertexBuffers", "m_VertexBuffer", 0, 1),
      Cmd("vkCmdBeginRenderPass", "m_Framebuffers", imageIndex, 0),
      Cmd("vkCmdBindPipeline", "m_VertexPipeline", 0, 0),
      Cmd("vkCmdDraw", "none", 3, 1),
      Cmd("vkCmdEndRenderPass", "none", 0, 0),
      Cmd("ImGui_ImplVulkan_RenderDrawData", "ImGui::GetDrawData", 0, 0),
      Cmd("vkEndCommandBuffer", "m_CommandBuffers", imageIndex, 0)>>
RecordCommands(imageIndex) ==
    <<Cmd("vkResetCommandBuffer", "m_CommandBuffers", imageIndex, 0),
      Cmd("vkBeginCommandBuffer", "m_CommandBuffers", imageIndex, 0),
      Cmd("vkCmdBindVertexBuffers", "m_VertexBuffer", 0, 1),
      Cmd("vkCmdBeginRenderPass", "m_Framebuffers", imageIndex, 0),
      Cmd("vkCmdBindPipeline", "m_VertexPipeline", 0, 0),
      Cmd("vkCmdDraw", "none", 3, 1),
      Cmd("ImGui_ImplVulkan_RenderDrawData", "ImGui::GetDrawData", 0, 0),
      Cmd("vkCmdEndRenderPass", "none", 0, 0),
      Cmd("vkEndCommandBuffer", "m_CommandBuffers", imageIndex, 0)>>

\* a batch that executes m_CommandBuffers[i] was submitted and has not completed
InFlight(i) == \E slot \in DOMAIN inFlightCmd : inFlightCmd[slot] = i

\* RecordCommand(m_FrameIndex).  vkResetCommandBuffer on a command buffer that is
\* still pending is undefined: the recording goes on, or the program dies.
RecordCommand ==
    /\ snapshot = "Sources" /\ pc = "RecordCommand"
    /\ steps' = Append(steps, "record")
    /\ \E defined \in (IF InFlight(m_FrameIndex) THEN BOOLEAN ELSE {TRUE}) :
         IF defined
           THEN /\ recorded' = RecordCommands(m_FrameIndex)
                /\ pc' = "FramePresent"
           ELSE /\ recorded' = <<>>
                /\ pc' = "crashed"
    /\ UNCHANGED <<fnVars, snapshot, stages, returned, m_Running, fpsVars, syncVars,
                   updated, acquireResult, submitResult, presentResult,
                   resizedAtStart, recreateCount, exitVars, mainVars, objVars,
                   drawable, overlay, indexFresh, inFlightCmd, gfxVars>>

\* FramePresent(): vkResetFences, vkQueueSubmit (throws unless VK_SUCCESS),
\* vkQueuePresentKHR, then the ring advances on VK_SUCCESS.  The batch submitted
\* with the fence of slot m_CurSyncFrame executes m_CommandBuffers[m_FrameIndex].
FramePresent ==
    /\ snapshot = "Sources" /\ pc = "FramePresent"
    /\ \E submit \in {"VK_SUCCESS", "VK_ERROR_DEVICE_LOST"}, present \in VkResults :
         /\ submitResult' = submit
         /\ fenceSignaled' = [fenceSignaled EXCEPT ![m_CurSyncFrame] = FALSE]
         /\ IF submit # "VK_SUCCESS"
              THEN /\ steps' = Append(steps, "submit")
                   /\ Throw
                   /\ UNCHANGED <<fencePending, inFlightCmd, presentResult,
                                  m_WindowResized, m_CurSyncFrame>>
              ELSE /\ steps' = steps \o <<"submit", "present">>
                   /\ fencePending' = [fencePending EXCEPT ![m_CurSyncFrame] = TRUE]
                   /\ inFlightCmd' = [inFlightCmd EXCEPT ![m_CurSyncFrame] = m_FrameIndex]
                   /\ presentResult' = present
                   /\ IF StaleResult(present)
                        THEN /\ m_WindowResized' = TRUE
                             /\ pc' = "FrameEnd"
                             /\ UNCHANGED <<m_CurSyncFrame, returned>>
                        ELSE IF present # "VK_SUCCESS"
                        THEN /\ Throw
                             /\ UNCHANGED <<m_WindowResized, m_CurSyncFrame>>
                        ELSE /\ m_CurSyncFrame' =
                                  NextSyncFrame(m_CurSyncFrame, m_SyncObjCount)
                             /\ pc' = "FrameEnd"
                             /\ UNCHANGED <<m_WindowResized, returned>>
    /\ UNCHANGED <<fnVars, snapshot, stages, m_Running, fpsVars, m_SyncObjCount,
                   m_FrameIndex, m_SwapImageCount, updated, acquireResult,
                   resizedAtStart, recreateCount, exitVars, mainVars, objVars,
                   drawable, overlay, recorded, indexFresh, gfxVars>>

\* frameElapsed = now() - frameStart; sleep when under the budget
FrameEnd ==
    /\ snapshot = "Sources" /\ pc = "FrameEnd"
    /\ \E elapsed \in ElapsedSamples : slept' = Sleeps(elapsed, frameMaxElapsed)
    /\ pc' = "LoopCheck"
    /\ UNCHANGED <<fnVars, snapshot, stages, returned, m_Running, m_LockFps,
                   frameMaxElapsed, setFps, syncVars, iterVars, exitVars,
                   mainVars, objVars, drawVars, gfxVars>>

\* vkDeviceWaitIdle(m_Device) after the loop; MainLoop returns
WaitIdle ==
    /\ snapshot = "Sources" /\ pc = "WaitIdle"
    /\ DeviceIdle
    /\ Return("MainLoop")
    /\ UNCHANGED <<fnVars, snapshot, stages, m_Running, fpsVars, syncVars, iterVars,
                   exitVars, mainVars, objVars, drawVars, gfxVars>>

Cleanup ==
    /\ snapshot = "Sources" /\ pc = "Cleanup"
    /\ Enter("Cleanup")
    /\ objs' = ApplyAll(objs, CleanupOps)
    /\ oplog' = CleanupOps
    /\ Return("Cleanup")
    /\ UNCHANGED <<fnVars, snapshot, m_Running, fpsVars, syncVars, iterVars, exitVars,
                   mainVars, failedStep, drawVars, gfxVars>>

\* the GPU finishes the batch submitted with fence i and signals the fence
GpuComplete(i) ==
    /\ snapshot = "Sources"
    /\ i \in DOMAIN fencePending
    /\ fencePending[i]
    /\ fencePending' = [fencePending EXCEPT ![i] = FALSE]
    /\ fenceSignaled' = [fenceSignaled EXCEPT ![i] = TRUE]
    /\ inFlightCmd' = [inFlightCmd EXCEPT ![i] = -1]
    /\ UNCHANGED <<fnVars, ctlVars, fpsVars, m_WindowResized, m_CurSyncFrame,
                   m_SyncObjCount, m_FrameIndex, m_SwapImageCount, iterVars,
                   exitVars, mainVars, objVars, drawable, overlay, recorded,
                   indexFresh, gfxVars>>

----------------------------------------------------------------------------
(* Source snapshot: Application::Run without rendering *)

Source_InitProperty ==
    /\ snapshot = "Source" /\ pc = "InitProperty"
    /\ Enter("InitProperty")
    /\ m_LockFps' = DefaultLockFps
    /\ Return("InitProperty")
    /\ UNCHANGED <<fnVars, snapshot, m_Running, frameMaxElapsed, setFps, slept, syncVars,
                   iterVars, exitVars, mainVars, objVars, drawVars, gfxVars>>

Source_InitWindow ==
    /\ snapshot = "Source" /\ pc = "InitWindow"
    /\ Enter("InitWindow")
    /\ \E failAt \in {0} \cup FailPoints(InitWindowOps) :
         /\ RunOps(InitWindowOps, failAt, FALSE)
         /\ IF failAt = 0 THEN Return("InitWindow") ELSE Throw
    /\ UNCHANGED <<fnVars, snapshot, m_Running, fpsVars, syncVars, iterVars, exitVars,
                   mainVars, drawVars, gfxVars>>

\* CreateInstance, CreateSurface, PickPhysicalDevice, CreateDevice,
\* CreateSwapchain, CreateImageViews
Source_InitVulkan ==
    /\ snapshot = "Source" /\ pc = "InitVulkan"
    /\ Enter("InitVulkan")
    /\ \E failAt \in {0} \cup FailPoints(Source_InitVulkanOps), some \in BOOLEAN,
          n \in ImageCounts :
         /\ RunOps(Source_InitVulkanOps, failAt, some)
         /\ m_SwapImageCount' =
              IF Created("swapchain", Executed(Source_InitVulkanOps, failAt))
                THEN n ELSE m_SwapImageCount
         /\ IF failAt = 0 THEN Return("InitVulkan") ELSE Throw
    /\ UNCHANGED <<fnVars, snapshot, m_Running, fpsVars, m_WindowResized, m_CurSyncFrame,
                   m_SyncObjCount, m_FrameIndex, fenceSignaled, fencePending,
                   iterVars, exitVars, mainVars, drawVars, gfxVars>>

Source_MainLoop ==
    /\ snapshot = "Source" /\ pc = "MainLoop"
    /\ Enter("MainLoop")
    /\ frameMaxElapsed' = Budget(m_LockFps)
    /\ m_Running' = TRUE
    /\ pc' = "LoopCheck"
    /\ UNCHANGED <<fnVars, snapshot, returned, m_LockFps, setFps, slept, syncVars,
                   iterVars, exitVars, mainVars, objVars, drawVars, gfxVars>>

\* while (m_Running); MainLoop returns when the condition fails
Source_LoopCheck ==
    /\ snapshot = "Source" /\ pc = "LoopCheck"
    /\ IF LoopCondition(m_Running)
         THEN /\ pc' = "PollEvent"
              /\ iters' = Min(iters + 1, MaxIters)
              /\ oplog' = <<>>
              /\ UNCHANGED returned
         ELSE /\ Return("MainLoop")
              /\ UNCHANGED <<iters, oplog>>
    /\ slept' = FALSE
    /\ UNCHANGED <<fnVars, snapshot, stages, m_Running, m_LockFps, frameMaxElapsed,
                   setFps, syncVars, iterVars, exitRequested, exitInLoop,
                   mainVars, objs, failedStep, drawVars, gfxVars>>

Source_PollEvent ==
    /\ snapshot = "Source" /\ pc = "PollEvent"
    /\ \E quit \in BOOLEAN :
         /\ m_Running' = IF quit THEN Exit ELSE m_Running
         /\ exitInLoop' = (exitInLoop \/ quit)
    /\ pc' = "FrameEnd"
    /\ UNCHANGED <<fnVars, snapshot, stages, returned, fpsVars, syncVars, iterVars,
                   exitRequested, iters, mainVars, objVars, drawVars, gfxVars>>

Source_FrameEnd ==
    /\ snapshot = "Source" /\ pc = "FrameEnd"
    /\ \E elapsed \in ElapsedSamples : slept' = Sleeps(elapsed, frameMaxElapsed)
    /\ pc' = "LoopCheck"
    /\ UNCHANGED <<fnVars, snapshot, stages, returned, m_Running, m_LockFps,
                   frameMaxElapsed, setFps, syncVars, iterVars, exitVars,
                   mainVars, objVars, drawVars, gfxVars>>

Source_Cleanup ==
    /\ snapshot = "Source" /\ pc = "Cleanup"
    /\ Enter("Cleanup")
    /\ objs' = ApplyAll(objs, Source_CleanupOps)
    /\ oplog' = Source_CleanupOps
    /\ Return("Cleanup")
    /\ UNCHANGED <<fnVars, snapshot, m_Running, fpsVars, syncVars, iterVars, exitVars,
                   mainVars, failedStep, drawVars, gfxVars>>

----------------------------------------------------------------------------
(* IApplication snapshot: main and IApplication::Run.  Create, Initialize,  *)
(* FrameRun and Finalize belong to the derived class: what they throw and   *)
(* whether they call Exit() are inputs.                                     *)

\* try { Initialize(); m_Running = true; } catch (const std::exception&) { m_Running = false; }
RunningAfterInitializeAlways(exc) == TRUE
RunningAfterInitialize(exc) == exc = "none"

\* an exception leaves Run: main catches std::exception, anything else terminates
Escapes(hook, exc) ==
    /\ pc' = IF exc = "std" THEN "exited" ELSE "terminated"
    /\ exitCode' = IF exc = "std" THEN "EXIT_FAILURE" ELSE "none"
    /\ threw' = IF exc = "std" THEN threw \cup {hook} ELSE threw

\* auto* app = IApplication::Create();
Main_Create ==
    /\ snapshot = "IApplication" /\ pc = "start"
    /\ \E exc \in Throws, exits \in BOOLEAN :
         /\ exitRequested' = (exitRequested \/ exits)
         /\ m_Running' = IF exits THEN Exit ELSE m_Running
         /\ IF exc = "none"
              THEN pc' = "Run" /\ UNCHANGED <<exitCode, threw>>
              ELSE Escapes("Create", exc)
    /\ UNCHANGED <<fnVars, snapshot, stages, returned, fpsVars, syncVars, iterVars,
                   exitInLoop, iters, initCalls, finalCalls, objVars, drawVars,
                   gfxVars>>

\* app->Run(): kMaxElapsed = m_LockFps ? kOneSec / m_LockFps : zero
IApplication_Run ==
    /\ snapshot = "IApplication" /\ pc = "Run"
    /\ frameMaxElapsed' = Budget(m_LockFps)
    /\ pc' = "Initialize"
    /\ UNCHANGED <<fnVars, snapshot, stages, returned, m_Running, m_LockFps, setFps,
                   slept, syncVars, iterVars, exitVars, mainVars, objVars,
                   drawVars, gfxVars>>

Run_Initialize ==
    /\ snapshot = "IApplication" /\ pc = "Initialize"
    /\ initCalls' = initCalls + 1
    /\ \E exc \in Throws, exits \in BOOLEAN :
         /\ exitRequested' = (exitRequested \/ exits)
         /\ IF exc = "other"
              THEN /\ Escapes("Initialize", exc)
                   /\ m_Running' = IF exits THEN Exit ELSE m_Running
              ELSE /\ m_Running' = RunningAfterInitialize(exc)
                   /\ threw' = IF exc = "std" THEN threw \cup {"Initialize"}
                               ELSE threw
                   /\ pc' = "LoopCheck"
                   /\ UNCHANGED exitCode
    /\ UNCHANGED <<fnVars, snapshot, stages, returned, fpsVars, syncVars, iterVars,
                   exitInLoop, iters, finalCalls, objVars, drawVars, gfxVars>>

\* while (m_Running)
Run_LoopCheck ==
    /\ snapshot = "IApplication" /\ pc = "LoopCheck"
    /\ pc' = IF LoopCondition(m_Running) THEN "FrameRun" ELSE "Finalize"
    /\ slept' = FALSE
    /\ UNCHANGED <<fnVars, snapshot, stages, returned, m_Running, m_LockFps,
                   frameMaxElapsed, setFps, syncVars, iterVars, exitVars,
                   mainVars, objVars, drawVars, gfxVars>>

Run_FrameRun ==
    /\ snapshot = "IApplication" /\ pc = "FrameRun"
    /\ iters' = Min(iters + 1, MaxIters)
    /\ \E exc \in Throws, exits \in BOOLEAN :
         /\ exitInLoop' = (exitInLoop \/ exits)
         /\ m_Running' = IF exits THEN Exit ELSE m_Running
         /\ IF exc = "none"
              THEN pc' = "FrameEnd" /\ UNCHANGED <<exitCode, threw>>
              ELSE Escapes("FrameRun", exc)
    /\ UNCHANGED <<fnVars, snapshot, stages, returned, fpsVars, syncVars, iterVars,
                   exitRequested, initCalls, finalCalls, objVars, drawVars, gfxVars>>

Run_FrameEnd ==
    /\ snapshot = "IApplication" /\ pc = "FrameEnd"
    /\ \E elapsed \in ElapsedSamples : slept' = Sleeps(elapsed, frameMaxElapsed)
    /\ pc' = "LoopCheck"
    /\ UNCHANGED <<fnVars, snapshot, stages, returned, m_Running, m_LockFps,
                   frameMaxElapsed, setFps, syncVars, iterVars, exitVars,
                   mainVars, objVars, drawVars, gfxVars>>

\* Finalize(); Run returns; main returns EXIT_SUCCESS
Run_Finalize ==
    /\ snapshot = "IApplication" /\ pc = "Finalize"
    /\ finalCalls' = finalCalls + 1
    /\ \E exc \in Throws :
         IF exc = "none"
           THEN /\ pc' = "exited"
                /\ exitCode' = "EXIT_SUCCESS"
                /\ UNCHANGED threw
           ELSE Escapes("Finalize", exc)
    /\ UNCHANGED <<fnVars, snapshot, stages, returned, m_Running, fpsVars, syncVars,
                   iterVars, exitVars, initCalls, objVars, drawVars, gfxVars>>

----------------------------------------------------------------------------
Next ==
    \/ \E fps \in FpsInputs : SetLockFps(fps)
    \/ ExitBeforeRun
    \/ Run
    \/ InitProperty
    \/ InitWindow
    \/ InitVulkan
    \/ InitImGui
    \/ MainLoop
    \/ LoopCheck
    \/ PollEvent
    \/ SizeCheck
    \/ RecreateSwapchain
    \/ FrameUpdate
    \/ RecordCommand
    \/ FramePresent
    \/ FrameEnd
    \/ WaitIdle
    \/ Cleanup
    \/ \E i \in 0..(SyncFrameNum - 1) : GpuComplete(i)
    \/ Source_InitProperty
    \/ Source_InitWindow
    \/ Source_InitVulkan
    \/ Source_MainLoop
    \/ Source_LoopCheck
    \/ Source_PollEvent
    \/ Source_FrameEnd
    \/ Source_Cleanup
    \/ Main_Create
    \/ IApplication_Run
    \/ Run_Initialize
    \/ Run_LoopCheck
    \/ Run_FrameRun
    \/ Run_FrameEnd
    \/ Run_Finalize

Spec == Init /\ [][Next]_vars

----------------------------------------------------------------------------
(* Functions of the program that are checked on their own.  FnSpec draws a   *)
(* function and an input for it in its initial state; its one step calls the *)
(* function and stores what it returned, threw or wrote.                     *)

\* what the Vulkan driver reports for a queue family: VK_QUEUE_GRAPHICS_BIT and
\* VK_QUEUE_TRANSFER_BIT of queueFlags, presentation support for the surface
Families == [graphics : BOOLEAN, transfer : BOOLEAN, present : BOOLEAN]

\* the sequences over S of length 0..n
SeqsUpTo(S, n) == UNION {[1..k -> S] : k \in 0..n}

MaxFamilies == 3

\* struct QueueFamilyIndices and its IsComplete()
QueueFamilyIndices == [graphicsFamily |-> UINT32_MAX, presentFamily |-> UINT32_MAX]
IsCompleteGraphicsOnly(indices) == indices.graphicsFamily # UINT32_MAX
IsComplete(indices) ==
    indices.graphicsFamily # UINT32_MAX /\ indices.presentFamily # UINT32_MAX

\* the loop of FindQueueFamilies from family i on (i counts from 0); queried is
\* the number of vkGetPhysicalDeviceSurfaceSupportKHR calls made
RECURSIVE FindQueueFamiliesLoop(_, _, _)
FindQueueFamiliesLoop(queueFamilies, i, indices) ==
    IF i >= Len(queueFamilies)
      THEN [indices |-> indices, queried |-> i]
      ELSE LET queueFamily == queueFamilies[i + 1]
               g == IF queueFamily.graphics
                      THEN [indices EXCEPT !.graphicsFamily = i] ELSE indices
               gp == IF queueFamily.present
                       THEN [g EXCEPT !.presentFamily = i] ELSE g
           IN  IF IsComplete(gp)
                 THEN [indices |-> gp, queried |-> i + 1]
                 ELSE FindQueueFamiliesLoop(queueFamilies, i + 1, gp)

FindQueueFamilies(queueFamilies) ==
    FindQueueFamiliesLoop(queueFamilies, 0, QueueFamilyIndices)

\* m_DeviceExtensions after InitProperty, and the names a device may offer
VK_KHR_SWAPCHAIN_EXTENSION_NAME == "VK_KHR_swapchain"
ExtensionNames == {VK_KHR_SWAPCHAIN_EXTENSION_NAME, "VK_KHR_maintenance1"}

MaxDeviceFamilies == 2
MaxSurfaceItems == 1

\* what the driver reports for a physical device and the surface: its queue
\* families, its extension names, the numbers of surface formats and present modes
PhysicalDevices ==
    [families : SeqsUpTo(Families, MaxDeviceFamilies),
     extensions : SUBSET ExtensionNames,
     formats : 0..MaxSurfaceItems,
     presentModes : 0..MaxSurfaceItems]

\* CheckDeviceExtension: the set of the required names, minus every available
\* name, is empty
CheckDeviceExtensionAlways(availableExtensions, extensions) == TRUE
CheckDeviceExtension(availableExtensions, extensions) ==
    (extensions \ availableExtensions) = {}

\* IsDeviceSuitable; surfaceQueried: swapchainSupport.Reset(gpu, m_Surface) ran
IsDeviceSuitable(gpu, m_DeviceExtensions) ==
    LET indices == FindQueueFamilies(gpu.families).indices
        extensionsSupported == CheckDeviceExtension(gpu.extensions, m_DeviceExtensions)
        swapchainAdequate ==
            IF extensionsSupported
              THEN gpu.formats # 0 /\ gpu.presentModes # 0
              ELSE FALSE
    IN  [suitable |-> IsComplete(indices) /\ extensionsSupported /\ swapchainAdequate,
         surfaceQueried |-> extensionsSupported]

MaxDevices == 3

\* devices the enumeration may hold: suitable ones, one without a present family,
\* one without the swapchain extension, one without a surface format
GpuSamples ==
    LET both == [graphics |-> TRUE, transfer |-> TRUE, present |-> TRUE]
        graphicsOnly == [graphics |-> TRUE, transfer |-> TRUE, present |-> FALSE]
        presentOnly == [graphics |-> FALSE, transfer |-> FALSE, present |-> TRUE]
        Gpu(f, e, n) == [families |-> f, extensions |-> e, formats |-> n,
                         presentModes |-> 1]
    IN  {Gpu(<<both>>, {VK_KHR_SWAPCHAIN_EXTENSION_NAME}, 1),
         Gpu(<<graphicsOnly, presentOnly>>, ExtensionNames, 1),
         Gpu(<<graphicsOnly>>, {VK_KHR_SWAPCHAIN_EXTENSION_NAME}, 1),
         Gpu(<<both>>, {}, 1),
         Gpu(<<both>>, {VK_KHR_SWAPCHAIN_EXTENSION_NAME}, 0)}

\* the loop of PickPhysicalDevice from device i on (i counts from 1): the handle
\* of the first suitable device, written to m_Gpu; a device's handle is modelled
\* by its place in the enumeration, m_Gpu is VK_NULL_HANDLE before the call
RECURSIVE PickLoopLast(_, _, _)
PickLoopLast(devices, i, m_DeviceExtensions) ==
    IF i > Len(devices)
      THEN VK_NULL_HANDLE
      ELSE LET later == PickLoopLast(devices, i + 1, m_DeviceExtensions)
           IN  IF later # VK_NULL_HANDLE THEN later
               ELSE IF IsDeviceSuitable(devices[i], m_DeviceExtensions).suitable
               THEN i ELSE VK_NULL_HANDLE
RECURSIVE PickLoop(_, _, _)
PickLoop(devices, i, m_DeviceExtensions) ==
    IF i > Len(devices)
      THEN VK_NULL_HANDLE
      ELSE IF IsDeviceSuitable(devices[i], m_DeviceExtensions).suitable
      THEN i
      ELSE PickLoop(devices, i + 1, m_DeviceExtensions)

\* PickPhysicalDevice: the value of m_Gpu when it is left, and what it threw
PickPhysicalDevice(devices, m_DeviceExtensions) ==
    IF Len(devices) = 0
      THEN [m_Gpu |-> VK_NULL_HANDLE,
            thrown |-> "failed to find GPUs with Vulkan support!"]
      ELSE LET gpu == PickLoop(devices, 1, m_DeviceExtensions)
           IN  IF gpu = VK_NULL_HANDLE
                 THEN [m_Gpu |-> gpu, thrown |-> "failed to find a suitable GPU!"]
                 ELSE [m_Gpu |-> gpu, thrown |-> "none"]

\* physical devices as the VulkanDevice constructor sees them: the device type
\* and the queue families
VkGpuSamples ==
    LET all == [graphics |-> TRUE, transfer |-> TRUE, present |-> TRUE]
        transferOnly == [graphics |-> FALSE, transfer |-> TRUE, present |-> TRUE]
        noPresent == [graphics |-> TRUE, transfer |-> TRUE, present |-> FALSE]
        compute == [graphics |-> FALSE, transfer |-> FALSE, present |-> TRUE]
        Gpu(type, f) == [deviceType |-> type, families |-> f]
    IN  {Gpu("eDiscreteGpu", <<noPresent, all>>),
         Gpu("eDiscreteGpu", <<transferOnly, all>>),
         Gpu("eDiscreteGpu", <<compute>>),
         Gpu("eIntegratedGpu", <<all>>),
         Gpu("eDiscreteGpu", <<>>)}

\* GpuEvaluate::operator(): discrete GPU, queueFlags & (eGraphics | eTransfer)
\* not empty, surface support of the family
GpuEvaluate(gpu, queueProp) ==
    /\ gpu.deviceType = "eDiscreteGpu"
    /\ (queueProp.graphics \/ queueProp.transfer)
    /\ queueProp.present

\* the inner loop of the constructor from family qi on (qi counts from 0): the
\* index of the first family accepted, UINT32_MAX when there is none
RECURSIVE QueueFamilyLoop(_, _)
QueueFamilyLoop(gpu, qi) ==
    IF qi >= Len(gpu.families)
      THEN UINT32_MAX
      ELSE IF GpuEvaluate(gpu, gpu.families[qi + 1])
      THEN qi
      ELSE QueueFamilyLoop(gpu, qi + 1)

\* the outer loop from device i on (i counts from 0): the members it writes
RECURSIVE GpuLoop(_, _)
GpuLoop(m_Gpus, i) ==
    IF i >= Len(m_Gpus)
      THEN [m_GpuIndex |-> UINT32_MAX, m_QueueFamilyIndex |-> UINT32_MAX,
            m_QueueFamilyProps |-> <<>>]
      ELSE LET qi == QueueFamilyLoop(m_Gpus[i + 1], 0)
           IN  IF qi # UINT32_MAX
                 THEN [m_GpuIndex |-> i, m_QueueFamilyIndex |-> qi,
                       m_QueueFamilyProps |-> m_Gpus[i + 1].families]
                 ELSE GpuLoop(m_Gpus, i + 1)

\* VulkanDevice::VulkanDevice: the selection, the throw, and the queues of the
\* logical device created (createDevice is taken to succeed)
VulkanDevice(m_Gpus) ==
    LET sel == GpuLoop(m_Gpus, 0)
    IN  IF \/ sel.m_GpuIndex >= Len(m_Gpus)
           \/ sel.m_QueueFamilyIndex >= Len(sel.m_QueueFamilyProps)
          THEN [m_GpuIndex |-> sel.m_GpuIndex,
                m_QueueFamilyIndex |-> sel.m_QueueFamilyIndex,
                thrown |-> "no available physical devices found!",
                m_Device |-> <<>>]
          ELSE [m_GpuIndex |-> sel.m_GpuIndex,
                m_QueueFamilyIndex |-> sel.m_QueueFamilyIndex,
                thrown |-> "none",
                m_Device |-> <<[queueFamilyIndex |-> sel.m_QueueFamilyIndex,
                                queueCount |-> 1]>>]

\* a uint32_t whose arithmetic matters is the pair of its 16-bit halves, the high
\* half first: <<0, n>> is n and <<2^16 - 1, 2^16 - 1>> is UINT32_MAX
Half == 2^16
U32(n) == <<0, n>>
U32Max == <<Half - 1, Half - 1>>

\* x + 1 in uint32_t arithmetic: the carry out of the high half is dropped
U32Inc(x) ==
    IF x[2] + 1 < Half
      THEN <<x[1], x[2] + 1>>
      ELSE <<(x[1] + 1) % Half, 0>>

\* x < y and x <= y on uint32_t values
U32Less(x, y) == x[1] < y[1] \/ (x[1] = y[1] /\ x[2] < y[2])
U32Leq(x, y) == x = y \/ U32Less(x, y)

\* image counts a surface may report: the small ones and the two largest
MaxCount == 3
SurfaceImageCounts ==
    {U32(n) : n \in 0..MaxCount} \cup {<<Half - 1, Half - 2>>, U32Max}

\* CreateSwapchainImpl: the image count it requests for the capabilities
CreateSwapchainImpl_imageCount(capabilities) ==
    LET imageCount == U32Inc(capabilities.minImageCount)
    IN  IF /\ U32Less(U32(0), capabilities.maxImageCount)
           /\ U32Less(capabilities.maxImageCount, imageCount)
          THEN capabilities.maxImageCount
          ELSE imageCount

\* extents: widths and heights of a surface, UINT32_MAX among them
MaxExtent == 2
ExtentValues == (0..MaxExtent) \cup {UINT32_MAX}
CurrentExtents == [width : {MaxExtent, UINT32_MAX}, height : {0, UINT32_MAX}]

\* SDL_clamp(x, a, b): ((x) < (a)) ? (a) : (((x) > (b)) ? (b) : (x))
SDL_clampNoUpper(x, a, b) == IF x < a THEN a ELSE x
SDL_clamp(x, a, b) == IF x < a THEN a ELSE IF x > b THEN b ELSE x

\* ChooseSwapExtent(capabilities, actualWidth, actualHeight)
ChooseSwapExtent(capabilities, actualWidth, actualHeight) ==
    IF capabilities.currentExtent.width # UINT32_MAX
      THEN capabilities.currentExtent
      ELSE [width |-> SDL_clamp(actualWidth,
                                capabilities.minImageExtent.width,
                                capabilities.maxImageExtent.width),
            height |-> SDL_clamp(actualHeight,
                                 capabilities.minImageExtent.height,
                                 capabilities.maxImageExtent.height)]

\* the functions and the inputs drawn for them
FnNames == {"FindQueueFamilies", "IsDeviceSuitable", "PickPhysicalDevice",
            "VulkanDevice", "CreateSwapchainImpl", "ChooseSwapExtent"}

FnInputs(f) ==
    CASE f = "FindQueueFamilies" -> SeqsUpTo(Families, MaxFamilies)
      [] f = "IsDeviceSuitable" ->
           [gpu : PhysicalDevices, m_DeviceExtensions : SUBSET ExtensionNames]
      [] f = "PickPhysicalDevice" ->
           [devices : SeqsUpTo(GpuSamples, MaxDevices),
            m_DeviceExtensions : {{VK_KHR_SWAPCHAIN_EXTENSION_NAME}}]
      [] f = "VulkanDevice" -> SeqsUpTo(VkGpuSamples, MaxDevices)
      [] f = "CreateSwapchainImpl" ->
           [minImageCount : SurfaceImageCounts, maxImageCount : SurfaceImageCounts]
      [] f = "ChooseSwapExtent" ->
           [capabilities : [currentExtent : CurrentExtents,
                            minImageExtent : [width : ExtentValues, height : ExtentValues],
                            maxImageExtent : [width : ExtentValues, height : ExtentValues]],
            actualWidth : ExtentValues, actualHeight : ExtentValues]

FnInit ==
    /\ snapshot = "Functions"
    /\ Constructed
    /\ fn \in FnNames
    /\ arg \in FnInputs(fn)
    /\ ret = <<>>

\* the call of function f with the input drawn
Call(f, result) ==
    /\ snapshot = "Functions" /\ fn = f /\ ret = <<>>
    /\ ret' = <<result>>
    /\ UNCHANGED <<fn, arg, ctlVars, fpsVars, syncVars, iterVars, exitVars,
                   mainVars, objVars, drawVars, gfxVars>>

Call_FindQueueFamilies ==
    Call("FindQueueFamilies", FindQueueFamilies(arg))

Call_IsDeviceSuitable ==
    Call("IsDeviceSuitable", IsDeviceSuitable(arg.gpu, arg.m_DeviceExtensions))

Call_PickPhysicalDevice ==
    Call("PickPhysicalDevice",
         PickPhysicalDevice(arg.devices, arg.m_DeviceExtensions))

Call_VulkanDevice ==
    Call("VulkanDevice", VulkanDevice(arg))

Call_CreateSwapchainImpl ==
    Call("CreateSwapchainImpl", CreateSwapchainImpl_imageCount(arg))

Call_ChooseSwapExtent ==
    Call("ChooseSwapExtent",
         ChooseSwapExtent(arg.capabilities, arg.actualWidth, arg.actualHeight))

FnNext ==
    \/ Call_FindQueueFamilies
    \/ Call_IsDeviceSuitable
    \/ Call_PickPhysicalDevice
    \/ Call_VulkanDevice
    \/ Call_CreateSwapchainImpl
    \/ Call_ChooseSwapExtent

FnSpec == FnInit /\ [][FnNext]_vars

\* function f was called and has returned or thrown
Called(f) == fn = f /\ Len(ret) = 1

----------------------------------------------------------------------------
(* Claims *)

FrameOrder == <<"acquire", "record", "submit", "present">>
Stale == {"VK_ERROR_OUT_OF_DATE_KHR", "VK_SUBOPTIMAL_KHR"}

\* C1: in every MainLoop iteration of the Sources snapshot the frame steps done so
\* far are a prefix of acquire, record, submit, present; record and submit happen
\* only when FrameUpdate returned true in this iteration, which it does only when
\* vkAcquireNextImageKHR returned VK_SUCCESS; present happens only after
\* vkQueueSubmit returned VK_SUCCESS.
C1_FrameStepOrder ==
    snapshot = "Sources" =>
      /\ IsPrefix(steps, FrameOrder)
      /\ (pc \in {"RecordCommand", "FramePresent"} \/ InSeq("record", steps)
            \/ InSeq("submit", steps))
           => (updated /\ acquireResult = "VK_SUCCESS" /\ steps[1] = "acquire")
      /\ InSeq("present", steps) => submitResult = "VK_SUCCESS"

C1_Witness ==
    /\ snapshot = "Sources"
    /\ steps = FrameOrder
    /\ acquireResult = "VK_SUCCESS"
    /\ submitResult = "VK_SUCCESS"

\* C2: a stale result (out-of-date or suboptimal) of acquire or present leaves
\* m_WindowResized true; only RecreateSwapchain clears the flag; an iteration
\* that reaches the acquire has run RecreateSwapchain exactly once if it started
\* with the flag set and not at all otherwise, and the flag is false when the
\* acquire is about to run.
C2_StateInv ==
    snapshot = "Sources" =>
      /\ acquireResult \in Stale => m_WindowResized
      /\ presentResult \in Stale => m_WindowResized
      /\ recreateCount <= 1
      /\ recreateCount = 1 => resizedAtStart
      /\ (pc = "FrameUpdate" \/ InSeq("acquire", steps))
           => recreateCount = (IF resizedAtStart THEN 1 ELSE 0)
      /\ pc = "FrameUpdate" => ~m_WindowResized

C2_RecreateOnResize ==
    /\ []C2_StateInv
    /\ [][(m_WindowResized /\ ~m_WindowResized') => pc = "RecreateSwapchain"]_vars
    /\ [][(pc = "RecreateSwapchain" /\ pc' = "FrameUpdate") => ~m_WindowResized']_vars

C2_Witness ==
    /\ snapshot = "Sources"
    /\ resizedAtStart
    /\ recreateCount = 1
    /\ InSeq("acquire", steps)

\* C3: recovery from a stale swapchain: when FrameUpdate is about to run in an
\* iteration that has recreated the swapchain, its vkWaitForFences (infinite
\* timeout) is not made on a fence that is unsignalled and has no pending
\* submission that will signal it.
C3_WaitHasSignaller ==
    (snapshot = "Sources" /\ pc = "FrameUpdate" /\ recreateCount = 1)
      => (fenceSignaled[m_CurSyncFrame] \/ fencePending[m_CurSyncFrame])

\* C4: once InitVulkan returned, m_SyncObjCount is 2, there are exactly that many
\* fences and 0 <= m_CurSyncFrame < m_SyncObjCount; m_SyncObjCount is written only
\* by InitVulkan; m_CurSyncFrame changes only in a FramePresent whose present
\* returned VK_SUCCESS, to (m_CurSyncFrame + 1) mod 2, and every such FramePresent
\* changes it that way.
C4_StateInv ==
    /\ m_CurSyncFrame >= 0
    /\ (snapshot = "Sources" /\ returned >= 3) =>
         /\ m_SyncObjCount = 2
         /\ DOMAIN fenceSignaled = 0..(m_SyncObjCount - 1)
         /\ m_CurSyncFrame < m_SyncObjCount

C5_RunStageOrder ==
    IsApp =>
      LET expected ==
            IF snapshot = "Sources"
              THEN <<"InitProperty", "InitWindow", "InitVulkan", "InitImGui",
                     "MainLoop", "Cleanup">>
              ELSE <<"InitProperty", "InitWindow", "InitVulkan", "MainLoop",
                     "Cleanup">>
      IN  /\ IsPrefix(stages, expected)
          /\ returned <= Len(stages)
          /\ returned >= Len(stages) - 1
          /\ pc = "done" => (stages = expected /\ returned = Len(expected))
          /\ pc = "thrown" => ~InSeq("Cleanup", stages)

C5_Witness ==
    /\ snapshot = "Sources"
    /\ pc = "done"
    /\ Len(stages) = 6
    /\ iters > 0

\* C6: IApplication::Run calls Initialize at most once and before anything else;
\* FrameRun runs only with m_Running true, after an Initialize that did not throw
\* and before Finalize; Finalize is called at most once and is the last call; when
\* Run has returned normally Finalize was called once, also when Initialize threw
\* a std::exception, and then FrameRun never ran.
C6_RunLifecycle ==
    snapshot = "IApplication" =>
      /\ initCalls <= 1
      /\ finalCalls <= 1
      /\ initCalls = 0 => (iters = 0 /\ finalCalls = 0)
      /\ (pc = "FrameRun" \/ iters > 0) =>
           (initCalls = 1 /\ "Initialize" \notin threw)
      /\ pc = "FrameRun" => (m_Running /\ finalCalls = 0)
      /\ finalCalls = 1 => pc \in {"exited", "terminated"}
      /\ exitCode = "EXIT_SUCCESS" => (initCalls = 1 /\ finalCalls = 1)

C6_Witness ==
    /\ snapshot = "IApplication"
    /\ "Initialize" \in threw
    /\ finalCalls = 1
    /\ iters = 0
    /\ exitCode = "EXIT_SUCCESS"

\* C7: main returns EXIT_FAILURE exactly when Create, Initialize, FrameRun or
\* Finalize threw a std::exception.
C7_ExitCodeReportsFailure ==
    (snapshot = "IApplication" /\ pc = "exited")
      => (exitCode = "EXIT_FAILURE" <=> threw # {})

\* C8: after Exit() inside the frame loop m_Running is false and the loop
\* condition starts no further iteration; the loop is left (normally) only by the
\* loop condition, so the steps after Exit() in the iteration are still run.
C8_LoopLeft ==
    /\ pc' # pc
    /\ \/ (snapshot = "Sources" /\ pc' = "WaitIdle")
       \/ (snapshot = "Source" /\ pc' = "Cleanup")
       \/ (snapshot = "IApplication" /\ pc' = "Finalize")

C9_ExitNeverLost == exitRequested => iters = 0

\* C10: in MainLoop, m_LockFps is the value given to SetLockFps before Run, the
\* frame budget is one second divided by it, and with 0 the loop never sleeps.
C10_LockFpsHonoured ==
    (IsApp /\ InSeq("MainLoop", stages)) =>
      \A f \in setFps :
        /\ m_LockFps = f
        /\ frameMaxElapsed = Budget(f)
        /\ f = 0 => ~slept

\* C11: Run terminates after a quit request.  In finite-run form: once SDL_QUIT
\* was delivered in the frame loop of the Sources snapshot, the program is never
\* stuck before Run is over: until then the CPU thread can take its next step or
\* the GPU has a submitted batch left to complete.  Stated for the iterations that
\* recreated the swapchain after a stale result.
C11_QuitTerminates ==
    (snapshot = "Sources" /\ exitInLoop /\ recreateCount = 1
       /\ pc \notin {"done", "thrown"})
      => ENABLED Next

\* the object operations of initialisation, in the order of the code
InitOps ==
    IF snapshot = "Sources"
      THEN InitWindowOps \o InitVulkanOps \o InitImGuiOps
      ELSE InitWindowOps \o Source_InitVulkanOps

\* initialisation failed: Run was left by an exception before MainLoop
C12_InitFailed == IsApp /\ pc = "thrown" /\ ~InSeq("MainLoop", stages)

\* position of the throw in the log
C12_ThrowAt == CHOOSE t \in 1..Len(oplog) : oplog[t].op = "throw"

\* the shader modules, which live only inside the two pipeline functions
C12_ShaderKinds == {"vertShader", "fragShader", "vertShaderModule",
                    "fragShaderModule"}

\* the exception leaves Run: the failing stage does not return, the operations
\* done before the throw are exactly the steps before the failing one, the
\* failing step left no object (or part of an array), MainLoop and Cleanup are
\* not entered
C12_Propagates ==
    /\ failedStep # "none"
    /\ ~InSeq("Cleanup", stages)
    /\ returned = Len(stages) - 1
    /\ Cardinality({t \in 1..Len(oplog) : oplog[t].op = "throw"}) = 1
    /\ C12_ThrowAt <= Len(InitOps)
    /\ SubSeq(oplog, 1, C12_ThrowAt - 1) = SubSeq(InitOps, 1, C12_ThrowAt - 1)
    /\ InitOps[C12_ThrowAt].kind = failedStep
    /\ oplog[C12_ThrowAt].kind = failedStep
    /\ objs[failedStep].handle \in {"null", "partial"}

\* the objects live when the step failed, per kind
C12_AtThrow == ApplyAll([k \in Kinds |-> [handle |-> "null", live |-> 0]],
                        SubSeq(oplog, 1, C12_ThrowAt))

\* C12 as stated: when a step of InitWindow or InitVulkan (with the swapchain
\* chain) throws, the exception leaves Run, the steps after the failing one are
\* not executed, MainLoop and Cleanup are not entered, nothing is destroyed after
\* the failure and every object that was live at the failure stays live.
C12_NoObjectDestroyed ==
    C12_InitFailed =>
      /\ C12_Propagates
      /\ \A i \in (C12_ThrowAt + 1)..Len(oplog) : oplog[i].op # "destroy"
      /\ \A k \in Kinds : objs[k] = C12_AtThrow[k]

\* C12, amended: as above, but the failure destroys the shader modules that
\* CreateSimplePipeline holds in ShaderModuleWrapper locals at that moment (their
\* destructors run while the exception unwinds); nothing else is destroyed after
\* the failure, every other object that was live at the failure stays live, no
\* member handle was ever destroyed, and the state never changes again.
C12_StateInv ==
    C12_InitFailed =>
      /\ C12_Propagates
      /\ \A i \in (C12_ThrowAt + 1)..Len(oplog) :
           /\ oplog[i].op = "destroy"
           /\ oplog[i].kind \in {"vertShader", "fragShader"}
           /\ C12_AtThrow[oplog[i].kind].live = 1
      /\ \A k \in Kinds \ {"vertShader", "fragShader"} : objs[k] = C12_AtThrow[k]
      /\ \A k \in {"vertShader", "fragShader"} : objs[k].live = 0
      /\ \A k \in Kinds \ C12_ShaderKinds :
           /\ objs[k].handle # "dead"
           /\ objs[k].handle = "live"
                <=> \E i \in 1..(C12_ThrowAt - 1) : oplog[i].kind = k

\* C12, amended, with its last part: a Run left by an exception does nothing more
C12_InitFailure ==
    /\ []C12_StateInv
    /\ [][pc = "thrown" => (pc' = "thrown" /\ UNCHANGED <<stages, objs, oplog>>)]_vars

C12_Witness ==
    /\ snapshot = "Sources"
    /\ pc = "thrown"
    /\ failedStep = "simplePipeline"
    /\ objs["simplePipelineLayout"].handle = "live"
    /\ objs["vertShader"].handle = "dead"
    /\ objs["fragShader"].handle = "dead"
    /\ objs["renderPass"].handle = "live"

\* the creation order the specification requires: <<a, b>> is "a before b"
C13_Before ==
    {<<"instance", "surface">>, <<"surface", "gpu">>, <<"gpu", "device">>,
     <<"device", "commandPool">>, <<"device", "vertexBuffer">>,
     <<"device", "swapchain">>, <<"swapchain", "imageViews">>,
     <<"imageViews", "framebuffers">>, <<"renderPass", "framebuffers">>,
     <<"renderPass", "simplePipeline">>, <<"renderPass", "vertexPipeline">>,
     <<"commandPool", "commandBuffers">>, <<"renderPass", "imguiBackend">>,
     <<"swapchain", "imguiBackend">>}

\* object a exists when the operation at position j of the log runs: the log made
\* it before and did not destroy it since, or (after initialisation) it is live
\* and the log never touched it
C13_ExistsAt(a, j) ==
    \/ \E i \in 1..(j - 1) :
         /\ oplog[i].kind = a /\ oplog[i].op \in {"create", "pick"}
         /\ \A m \in (i + 1)..(j - 1) :
              ~(oplog[m].kind = a /\ oplog[m].op = "destroy")
    \/ /\ iters > 0
       /\ objs[a].handle = "live"
       /\ \A i \in 1..Len(oplog) : oplog[i].kind # a

C14_Dependents ==
    {"framebuffers", "commandBuffers", "simplePipeline", "simplePipelineLayout",
     "vertexPipeline", "vertexPipelineLayout", "renderPass", "imageViews"}

\* positions of the log with operation o on kind k
C14_At(o, k) == {i \in 1..Len(oplog) : oplog[i].op = o /\ oplog[i].kind = k}

C14_OneLive(k) == objs[k] = [handle |-> "live", live |-> 1]

\* the CPU thread is in the frame loop (RecreateSwapchain, if called, has returned)
C14_InLoop ==
    pc \in {"LoopCheck", "PollEvent", "SizeCheck", "RecreateSwapchain",
            "FrameUpdate", "RecordCommand", "FramePresent", "FrameEnd",
            "WaitIdle"}

\* C14: in the frame loop there is exactly one live swapchain and one live set of
\* dependent objects, before and after any number of recreations; a
\* RecreateSwapchain that returned destroyed every dependent object exactly once
\* and before it created the replacement, created the new swapchain exactly once
\* with the old one as oldSwapchain, and destroyed the old swapchain exactly once
\* and after that creation.
C14_SwapchainLifecycle ==
    (snapshot = "Sources" /\ C14_InLoop) =>
      /\ \A k \in C14_Dependents \cup {"swapchain"} : C14_OneLive(k)
      /\ recreateCount = 1 =>
           /\ \A k \in C14_Dependents :
                /\ Cardinality(C14_At("destroy", k)) = 1
                /\ Cardinality(C14_At("create", k)) = 1
                /\ \A i \in C14_At("destroy", k), j \in C14_At("create", k) : i < j
           /\ Cardinality(C14_At("create", "swapchain")) = 1
           /\ Cardinality(C14_At("destroyOld", "swapchain")) = 1
           /\ C14_At("destroy", "swapchain") = {}
           /\ \A i \in C14_At("create", "swapchain") :
                /\ oplog[i].arg = "oldSwapchain"
                /\ \A j \in C14_At("destroyOld", "swapchain") : i < j
                /\ \A k \in C14_Dependents :
                     \A d \in C14_At("destroy", k), c \in C14_At("create", k) :
                       d < i /\ i < c

C14_Witness ==
    /\ snapshot = "Sources"
    /\ recreateCount = 1
    /\ failedStep = "none"
    /\ pc = "FramePresent"
    /\ iters = 2
    /\ C14_OneLive("swapchain")

\* the objects initialisation creates and leaves to Cleanup (the physical device
\* is only selected; the shader modules are destroyed by the pipeline functions)
C15_Made ==
    IF snapshot = "Sources"
      THEN Kinds \ ({"gpu"} \cup C12_ShaderKinds)
      ELSE {"window", "instance", "surface", "device", "swapchain", "imageViews"}

\* <<child, parent>>: the child is destroyed before the parent
C15_ChildParent ==
    {<<"framebuffers", "imageViews">>, <<"commandBuffers", "commandPool">>,
     <<"device", "instance">>, <<"surface", "instance">>, <<"surface", "window">>}
    \cup {<<k, "swapchain">> : k \in C14_Dependents}
    \cup {<<k, "device">> : k \in {"descriptorPool", "vertexBuffer",
                                    "vertexBufferMemory", "swapchain",
                                    "semaphores", "fences", "commandPool"}}

\* C15: when Cleanup is called every object initialisation created and left to it
\* is live, once, and nothing else is live; when Cleanup has returned it has
\* destroyed each of them exactly once, created nothing, left no object of any
\* kind live, and destroyed every child before its parent:
\* framebuffers before image views, the swapchain-dependent objects before the
\* swapchain, command buffers before the command pool, the device-level objects
\* before the device, device and surface before the instance, the window after
\* the surface.
C15_CleanupOrder ==
    IsApp =>
      /\ pc = "Cleanup" =>
           /\ \A k \in C15_Made : C14_OneLive(k)
           /\ \A k \in Kinds \ C15_Made : objs[k].live = 0
      /\ pc = "done" =>
           /\ \A i \in 1..Len(oplog) : oplog[i].op = "destroy"
           /\ \A k \in C15_Made :
                /\ Cardinality(C14_At("destroy", k)) = 1
                /\ objs[k] = [handle |-> "dead", live |-> 0]
           /\ \A k \in Kinds \ C15_Made : C14_At("destroy", k) = {}
           /\ \A k \in Kinds : objs[k].live = 0
           /\ \A pair \in C15_ChildParent :
                \A c \in C14_At("destroy", pair[1]), q \in C14_At("destroy", pair[2]) :
                  c < q

C15_Witness ==
    /\ snapshot = "Sources"
    /\ pc = "done"
    /\ recreateCount = 1
    /\ Len(oplog) = 21

\* this step destroys an object: it adds destroy operations to the log
C16_Destroys ==
    /\ oplog' # oplog
    /\ \E i \in 1..Len(oplog') : oplog'[i].op \in {"destroy", "destroyOld"}

\* C16: every step that destroys objects (RecreateSwapchain, whether it returns or
\* throws, and Cleanup) starts in a state where no submitted batch is pending on
\* the GPU: the wait for the idle device came before it and nothing was submitted
\* since.
C16_DestroyWhenIdle ==
    [][C16_Destroys =>
         /\ \A i \in DOMAIN fencePending : ~fencePending[i]
         /\ \A i \in DOMAIN inFlightCmd : inFlightCmd[i] = -1]_vars

C16_Witness ==
    /\ snapshot = "Sources"
    /\ pc = "done"
    /\ InSeq("present", steps)
    /\ \E i \in 1..Len(oplog) : oplog[i].op = "destroy"

\* C17: whenever RecordCommand(m_FrameIndex) or FramePresent is about to run,
\* m_FrameIndex is not its initial UINT32_MAX, was written by an acquire on the
\* swapchain that is live now, and is below m_SwapImageCount, after any frames
\* and recreations (which may change the image count); whenever FrameUpdate is
\* about to run, m_CurSyncFrame is below m_SyncObjCount.
C17_IndexAsserts ==
    snapshot = "Sources" =>
      /\ pc \in {"RecordCommand", "FramePresent"} =>
           /\ m_FrameIndex # UINT32_MAX
           /\ indexFresh
           /\ m_FrameIndex >= 0
           /\ m_FrameIndex < m_SwapImageCount
      /\ pc = "FrameUpdate" =>
           /\ m_CurSyncFrame >= 0
           /\ m_CurSyncFrame < m_SyncObjCount

C17_Witness ==
    /\ snapshot = "Sources"
    /\ pc = "FramePresent"
    /\ recreateCount = 1
    /\ m_SwapImageCount = 2
    /\ m_FrameIndex = 1
    /\ m_CurSyncFrame = 1

\* the drawable size read in this iteration has a width or height <= 0
C18_Minimised == drawable # <<>> /\ (drawable[1] <= 0 \/ drawable[2] <= 0)

C18_Kept == <<m_WindowResized, m_CurSyncFrame, m_FrameIndex, m_SwapImageCount,
              objs, fenceSignaled, inFlightCmd>>

\* C18: in an iteration that read a drawable width or height <= 0 nothing of the
\* frame is done: no RecreateSwapchain, no ImGui frame, no acquire, record, submit
\* or present, no object operation; the size check goes straight to the end of
\* the iteration and the CPU thread leaves m_WindowResized, m_CurSyncFrame,
\* m_FrameIndex, the image count and the objects as they were, so a recreate
\* request that was pending when the iteration started is still pending.
C18_StateInv ==
    (snapshot = "Sources" /\ C14_InLoop /\ C18_Minimised) =>
      /\ pc \in {"FrameEnd", "LoopCheck", "WaitIdle"}
      /\ steps = <<>>
      /\ recreateCount = 0
      /\ ~overlay
      /\ recorded = <<>>
      /\ oplog = <<>>
      /\ acquireResult = "none" /\ submitResult = "none" /\ presentResult = "none"
      /\ m_WindowResized = resizedAtStart

C18_MinimisedSkipsFrame ==
    /\ []C18_StateInv
    /\ [][(pc = "SizeCheck" /\ pc' # pc /\ C18_Minimised')
            => (pc' = "FrameEnd" /\ UNCHANGED C18_Kept)]_vars
    /\ [][(pc = "FrameEnd" /\ pc' # pc /\ C18_Minimised)
            => UNCHANGED C18_Kept]_vars

C18_Witness ==
    /\ snapshot = "Sources"
    /\ pc = "LoopCheck"
    /\ drawable = <<1280, 0>>
    /\ resizedAtStart
    /\ m_WindowResized

\* C19: whenever RecordCommand is about to reset and re-record
\* m_CommandBuffers[m_FrameIndex], no batch that executes that command buffer is
\* still pending on the GPU (under either fence slot).
C19_NoResetWhilePending ==
    (snapshot = "Sources" /\ pc = "RecordCommand") =>
      \A slot \in DOMAIN inFlightCmd :
        fencePending[slot] => inFlightCmd[slot] # m_FrameIndex

C20_Expected ==
    <<"vkResetCommandBuffer", "vkBeginCommandBuffer", "vkCmdBindVertexBuffers",
      "vkCmdBeginRenderPass", "vkCmdBindPipeline", "vkCmdDraw",
      "ImGui_ImplVulkan_RenderDrawData", "vkCmdEndRenderPass",
      "vkEndCommandBuffer">>

\* positions of command c in the recording of this iteration
C20_Pos(c) == {i \in 1..Len(recorded) : recorded[i].cmd = c}

\* C20: whenever RecordCommand has recorded in this iteration, the recording is
\* exactly: reset and begin of m_CommandBuffers[m_FrameIndex], bind the vertex
\* buffer, begin the render pass on m_Framebuffers[m_FrameIndex], bind
\* m_VertexPipeline, one draw of 3 vertices and 1 instance, the ImGui draw data of
\* this iteration's ImGui::Render, end render pass, end command buffer; the
\* overlay comes after the triangle and inside the same render pass, which lies
\* inside the command buffer's begin and end; FramePresent runs only on such a
\* recording.
C20_RecordedCommands ==
    snapshot = "Sources" =>
      /\ pc = "FramePresent" => recorded # <<>>
      /\ recorded # <<>> =>
           /\ [i \in 1..Len(recorded) |-> recorded[i].cmd] = C20_Expected
           /\ overlay
           /\ \A i \in C20_Pos("vkResetCommandBuffer") \cup C20_Pos("vkBeginCommandBuffer")
                       \cup C20_Pos("vkEndCommandBuffer") :
                recorded[i].obj = "m_CommandBuffers" /\ recorded[i].a = m_FrameIndex
           /\ \A i \in C20_Pos("vkCmdBindVertexBuffers") :
                recorded[i].obj = "m_VertexBuffer"
           /\ \A i \in C20_Pos("vkCmdBeginRenderPass") :
                recorded[i].obj = "m_Framebuffers" /\ recorded[i].a = m_FrameIndex
           /\ \A i \in C20_Pos("vkCmdBindPipeline") :
                recorded[i].obj = "m_VertexPipeline"
           /\ \A i \in C20_Pos("vkCmdDraw") : recorded[i].a = 3 /\ recorded[i].b = 1
           /\ \A c \in {C20_Expected[i] : i \in 1..Len(C20_Expected)} :
                Cardinality(C20_Pos(c)) = 1
           /\ \A b \in C20_Pos("vkBeginCommandBuffer"),
                 r \in C20_Pos("vkCmdBeginRenderPass"),
                 d \in C20_Pos("vkCmdDraw"),
                 o \in C20_Pos("ImGui_ImplVulkan_RenderDrawData"),
                 e \in C20_Pos("vkCmdEndRenderPass"),
                 f \in C20_Pos("vkEndCommandBuffer") :
                b < r /\ r < d /\ d < o /\ o < e /\ e < f

C20_Witness ==
    /\ snapshot = "Sources"
    /\ pc = "FramePresent"
    /\ m_FrameIndex = 2
    /\ Len(recorded) = 9
    /\ recorded[4] = Cmd("vkCmdBeginRenderPass", "m_Framebuffers", 2, 0)

\* C21: shader modules are scoped to pipeline creation: whenever control is
\* outside CreateSimplePipeline and CreateVertexPipeline, after a return or a
\* throw of either (failing second shader module, pipeline layout or pipeline),
\* no shader module is live, and the phase's log holds exactly one destroy for
\* every shader module it created.
C21_ShaderModulesScoped ==
    IsApp =>
      \A k \in C12_ShaderKinds :
        /\ objs[k].live = 0
        /\ Cardinality(C14_At("destroy", k)) = Cardinality(C14_At("create", k))

\* C22: whenever RecordCommand has recorded ImGui draw data in this iteration
\* of the frame loop, the render pass the ImGui Vulkan backend was initialised with is the live
\* render pass m_SimpleRenderPass names, and the image count it was initialised
\* with is the current m_SwapImageCount, also after RecreateSwapchain calls.
C22_OverlayMatchesSwapchain ==
    (snapshot = "Sources" /\ C14_InLoop
       /\ C20_Pos("ImGui_ImplVulkan_RenderDrawData") # {}) =>
      /\ objs["renderPass"].handle = "live"
      /\ init_info.RenderPass = m_SimpleRenderPass
      /\ init_info.ImageCount = m_SwapImageCount

\* a device is suitable, as the specification defines it
C24_Suitable(gpu, required) ==
    /\ \E i \in 1..Len(gpu.families) : gpu.families[i].graphics
    /\ \E i \in 1..Len(gpu.families) : gpu.families[i].present
    /\ \A e \in required : e \in gpu.extensions
    /\ gpu.formats >= 1 /\ gpu.presentModes >= 1

C23_SuitableAt(devices, required) ==
    {i \in 1..Len(devices) : C24_Suitable(devices[i], required)}

\* C23: PickPhysicalDevice throws "failed to find GPUs with Vulkan support!" when
\* no device is enumerated and "failed to find a suitable GPU!" when devices exist
\* but none is suitable; otherwise it returns normally with m_Gpu the first
\* suitable device of the enumeration: m_Gpu is suitable and no device before it
\* is; when it throws, m_Gpu is still VK_NULL_HANDLE.
C23_PickPhysicalDevice ==
    Called("PickPhysicalDevice") =>
      LET S == C23_SuitableAt(arg.devices, arg.m_DeviceExtensions)
          r == ret[1]
      IN  /\ Len(arg.devices) = 0
               => r.thrown = "failed to find GPUs with Vulkan support!"
          /\ (Len(arg.devices) > 0 /\ S = {})
               => r.thrown = "failed to find a suitable GPU!"
          /\ S # {} => r.thrown = "none"
          /\ r.thrown = "none" =>
               /\ r.m_Gpu \in S
               /\ \A j \in 1..(r.m_Gpu - 1) : j \notin S
          /\ r.thrown # "none" => r.m_Gpu = VK_NULL_HANDLE

C23_Witness ==
    /\ Called("PickPhysicalDevice")
    /\ Len(arg.devices) = 3
    /\ C23_SuitableAt(arg.devices, arg.m_DeviceExtensions) = {2, 3}
    /\ ret[1] = [m_Gpu |-> 2, thrown |-> "none"]

\* C24: IsDeviceSuitable(gpu) is true iff (a) some queue family has the graphics
\* bit and some family supports presentation, (b) every name in
\* m_DeviceExtensions is among the device's extensions, (c) the surface has at
\* least one format and one present mode; the surface formats and present modes
\* are queried only when (b) holds.
C24_IsDeviceSuitable ==
    Called("IsDeviceSuitable") =>
      /\ ret[1].suitable <=> C24_Suitable(arg.gpu, arg.m_DeviceExtensions)
      /\ ret[1].surfaceQueried =>
           \A e \in arg.m_DeviceExtensions : e \in arg.gpu.extensions

C24_Witness ==
    /\ Called("IsDeviceSuitable")
    /\ arg.m_DeviceExtensions = {VK_KHR_SWAPCHAIN_EXTENSION_NAME}
    /\ arg.gpu.extensions = ExtensionNames
    /\ Len(arg.gpu.families) = 2
    /\ ~arg.gpu.families[1].present /\ ~arg.gpu.families[2].graphics
    /\ arg.gpu.formats = 1 /\ arg.gpu.presentModes = 1
    /\ ret[1] = [suitable |-> TRUE, surfaceQueried |-> TRUE]

\* indices (from 0) of the families with the graphics bit / present support
C25_Graphics(fams) == {i \in 0..(Len(fams) - 1) : fams[i + 1].graphics}
C25_Present(fams) == {i \in 0..(Len(fams) - 1) : fams[i + 1].present}
C25_Max(S) == CHOOSE m \in S : \A x \in S : x <= m
C25_UpTo(S, k) == {x \in S : x <= k}

\* C25: FindQueueFamilies, for every list of queue families: the result is
\* complete iff some family has the graphics bit and some family has present
\* support; when complete, the scan stopped at the first index k at which both
\* kinds had been seen, and graphicsFamily / presentFamily is the largest index
\* <= k with the graphics bit / present support; when not complete, the whole
\* list was scanned and each field is the largest matching index of the list, or
\* UINT32_MAX when there is none.
C25_FindQueueFamilies ==
    Called("FindQueueFamilies") =>
      LET G == C25_Graphics(arg)
          P == C25_Present(arg)
          r == ret[1].indices
          k == ret[1].queried - 1
          complete == r.graphicsFamily # UINT32_MAX /\ r.presentFamily # UINT32_MAX
      IN  /\ complete <=> (G # {} /\ P # {})
          /\ complete =>
               /\ k \in 0..(Len(arg) - 1)
               /\ C25_UpTo(G, k) # {} /\ C25_UpTo(P, k) # {}
               /\ \A j \in 0..(k - 1) : C25_UpTo(G, j) = {} \/ C25_UpTo(P, j) = {}
               /\ r.graphicsFamily = C25_Max(C25_UpTo(G, k))
               /\ r.presentFamily = C25_Max(C25_UpTo(P, k))
          /\ ~complete =>
               /\ ret[1].queried = Len(arg)
               /\ r.graphicsFamily = IF G = {} THEN UINT32_MAX ELSE C25_Max(G)
               /\ r.presentFamily = IF P = {} THEN UINT32_MAX ELSE C25_Max(P)

C25_Witness ==
    /\ Called("FindQueueFamilies")
    /\ Len(arg) = 3
    /\ C25_Graphics(arg) = {0, 1, 2}
    /\ C25_Present(arg) = {1, 2}
    /\ ret[1].indices = [graphicsFamily |-> 1, presentFamily |-> 1]
    /\ ret[1].queried = 2

\* the (device, family) pairs, counted from 0, that qualify: discrete GPU, family
\* with graphics and transfer, family able to present
C26_Qualify(gpus) ==
    {pair \in (0..(Len(gpus) - 1)) \X (0..(MaxFamilies - 1)) :
       /\ pair[2] < Len(gpus[pair[1] + 1].families)
       /\ gpus[pair[1] + 1].deviceType = "eDiscreteGpu"
       /\ gpus[pair[1] + 1].families[pair[2] + 1].graphics
       /\ gpus[pair[1] + 1].families[pair[2] + 1].transfer
       /\ gpus[pair[1] + 1].families[pair[2] + 1].present}

\* pair p comes before pair q: devices in enumeration order, then families
C26_Before(p, q) == p[1] < q[1] \/ (p[1] = q[1] /\ p[2] < q[2])

\* C26: the VulkanDevice constructor selects the first (device, family) pair, in
\* enumeration and index order, whose device is a discrete GPU and whose family
\* supports graphics and transfer and can present; it creates the logical
\* device with exactly one queue of that family; when no pair qualifies it
\* throws "no available physical devices found!" and creates no device.
C26_VulkanDevice ==
    Called("VulkanDevice") =>
      LET Q == C26_Qualify(arg)
          r == ret[1]
      IN  IF Q = {}
            THEN /\ r.thrown = "no available physical devices found!"
                 /\ r.m_Device = <<>>
            ELSE /\ r.thrown = "none"
                 /\ <<r.m_GpuIndex, r.m_QueueFamilyIndex>> \in Q
                 /\ \A q \in Q : ~C26_Before(q, <<r.m_GpuIndex, r.m_QueueFamilyIndex>>)
                 /\ r.m_Device = <<[queueFamilyIndex |-> r.m_QueueFamilyIndex,
                                    queueCount |-> 1]>>

\* C27: the image count CreateSwapchainImpl requests is minImageCount + 1,
\* lowered to maxImageCount when maxImageCount > 0 and the sum exceeds it; for
\* all capabilities with maxImageCount = 0 or maxImageCount >= minImageCount the
\* requested count is at least minImageCount, and it never exceeds a non-zero
\* maxImageCount.
C27_ImageCount ==
    Called("CreateSwapchainImpl") =>
      LET min == arg.minImageCount
          max == arg.maxImageCount
          sum == U32Inc(min)
          r == ret[1]
      IN  /\ r = IF max # U32(0) /\ U32Less(max, sum) THEN max ELSE sum
          /\ (max = U32(0) \/ U32Leq(min, max)) => U32Leq(min, r)
          /\ max # U32(0) => U32Leq(r, max)

\* v is x brought into [a, b], for a <= b
C28_Clamped(v, x, a, b) ==
    /\ a <= v /\ v <= b
    /\ (a <= x /\ x <= b) => v = x
    /\ x < a => v = a
    /\ x > b => v = b

\* C28: ChooseSwapExtent returns currentExtent unchanged whenever
\* currentExtent.width is not UINT32_MAX; otherwise it returns the drawable size
\* with width and height each clamped into [minImageExtent, maxImageExtent], for
\* every drawable size and every range with min <= max.
C28_ChooseSwapExtent ==
    Called("ChooseSwapExtent") =>
      LET c == arg.capabilities
          r == ret[1]
      IN  IF c.currentExtent.width # UINT32_MAX
            THEN r = c.currentExtent
            ELSE /\ c.minImageExtent.width <= c.maxImageExtent.width =>
                      C28_Clamped(r.width, arg.actualWidth,
                                  c.minImageExtent.width, c.maxImageExtent.width)
                 /\ c.minImageExtent.height <= c.maxImageExtent.height =>
                      C28_Clamped(r.height, arg.actualHeight,
                                  c.minImageExtent.height, c.maxImageExtent.height)

\* both branches are taken: a drawable width above the range and a drawable
\* height below it are clamped, and a surface with a current extent keeps it
C28_Witness ==
    /\ Called("ChooseSwapExtent")
    /\ arg.capabilities.currentExtent.width = UINT32_MAX
    /\ arg.capabilities.minImageExtent = [width |-> 1, height |-> 1]
    /\ arg.capabilities.maxImageExtent = [width |-> 2, height |-> 2]
    /\ arg.actualWidth = UINT32_MAX /\ arg.actualHeight = 0
    /\ ret[1] = [width |-> 2, height |-> 1]

====
